---- MODULE Spec2Model ----
(***************************************************************************)
(* Guild cache server: the rate-limited scan queue, the POST /player       *)
(* handler, scanPlayerGuild and the store it reconciles.                   *)
(*                                                                         *)
(* Two variants of the server are in the repository: src/unnamed/part_000  *)
(* (intervalCap 1, one-hour TTL) and src/index.js (intervalCap 60, 7-day   *)
(* TTL, GET /unguilded).  The handler, scanPlayerGuild, upsertGuild and    *)
(* removePlayerFromOldGuild are the same text in both.  The model takes    *)
(* the constants of part_000 and adds the /unguilded endpoint of index.js. *)
(* The tables are those index.js creates (part_000 creates guilds and      *)
(* members only and uses players_no_guild as it finds it); the no-guild    *)
(* upsert is the statement of part_000 (the one of index.js names a column *)
(* `name` that players_no_guild does not have).                            *)
(*                                                                         *)
(* Time is in milliseconds (Date.now()); now() is seconds.  Rows carry the *)
(* key and the columns the scan logic reads or writes (rank, name and tag  *)
(* are copied through by the code and never read; they are left out).      *)
(*                                                                         *)
(* Store statements take effect in the order they are issued (one sqlite   *)
(* connection).  A statement issued with a callback is one step: it        *)
(* executes and its callback runs.  A statement issued without a callback  *)
(* (the two db.run calls of scanPlayerGuild, the UPDATE of                  *)
(* updateMemberLevel) is put in pendingWrites and applied by a later step, *)
(* before any statement issued after it.                                   *)
(*                                                                         *)
(* The sweeper (processGuildLevels on a setInterval) is in part_000 only.   *)
(* It reads and writes the columns highest_sb_level and level_last_updated *)
(* of members, which no request and no scan reads.  Spec, LiveSpec and     *)
(* ConcurrentSpec are the server without it; SweepSpec is the server with  *)
(* it, where time passes from one tick of the sweeper to the next.         *)
(***************************************************************************)
EXTENDS Integers, Sequences, FiniteSets, TLC

(* ---------------- bounds of the model ---------------- *)
MaxTicks == 1
MaxQueue == 2
MaxTasks == 3
MaxRequests == 1
MaxConcurrentRequests == 2
MaxSweeps == 2
MaxSweepTasks == 2
StartTime == 7200000

(* ---------------- program constants ---------------- *)
SEVEN_DAYS == 3600
IntervalMs == 60000
IntervalCap == 1
Concurrency == 1
SweepIntervalMs == 60000
SweepLimit == 60
LevelTtlMs == 604800000

Players == {<<"a">>, <<"b">>}
Guilds == {"gA", "gB"}
\* request bodies: a uuid with or without hyphens, or no uuid at all
RawUUIDs == Players \cup {<<"a", "-">>, <<"-", "b">>, <<>>}
\* how far one advance of the clock goes: to the end of the queue's interval,
\* to the last moment a row is fresh, or past it
TickSteps == {IntervalMs, SEVEN_DAYS * 1000, SEVEN_DAYS * 1000 + IntervalMs}

VARIABLES
  clock,            \* Date.now(), milliseconds
  ticks,            \* number of clock advances so far (bounded by MaxTicks)
  guilds,           \* table guilds: set of rows [guild_id, last_scan]
  members,          \* table members: set of rows [uuid, guild_id, last_scan]
  players_no_guild, \* table players_no_guild: set of rows [uuid, last_scan]
  unguilded_players,\* table unguilded_players (index.js): set of rows
  pendingWrites,    \* statements issued without callback, not yet executed
  pq,               \* the PQueue: its FIFO and its interval bookkeeping
  scans,            \* the scanPlayerGuild calls in progress
  handlers,         \* POST /player requests in progress; the response a
                    \* request got is kept for the one state after it, with
                    \* whether the player had a row, and a fresh row, when
                    \* it arrived
  submitted,        \* number of tasks given to queue.add so far (bounded)
  fetchStarts,      \* history: start times of the last IntervalCap+1 scans
  lastScan,         \* history: the scan that has just ended (kept while its
                    \* pending statements are applied, NoScan after that)
  stats,            \* the stats object: hypixelApiRequestTimestamps is kept
                    \* as the length of the array; totalGuildsTracked starts
                    \* as the COUNT(*) of guilds at startup
  level_last_updated, \* column level_last_updated of members, by uuid, in
                    \* milliseconds (0: NULL, or no row)
  sweeps,           \* the processGuildLevels calls in progress
  sweepAt,          \* when the setInterval of the sweeper fires next (0:
                    \* the sweeper is left out)
  levelFetchedAt    \* history: when fetchHighestSBLevel was last called
                    \* for a player (0: never)

vars == <<clock, ticks, guilds, members, players_no_guild, unguilded_players,
          pendingWrites, pq, scans, handlers, submitted, fetchStarts, lastScan,
          stats, level_last_updated, sweeps, sweepAt, levelFetchedAt>>

\* the state of the sweeper but the column it writes
sweeper == <<sweeps, sweepAt, levelFetchedAt>>

(* ---------------- pure helpers ---------------- *)
\* now(): Math.floor(Date.now() / 1000)
now(t) == t \div 1000

\* uuid.replace(/-/g, "")
cleanUUID(u) == SelectSeq(u, LAMBDA c : c # "-")

\* !row.last_scan || now() - row.last_scan > SEVEN_DAYS
IsStale(row, t) == row.last_scan = 0 \/ now(t) - row.last_scan > SEVEN_DAYS

RowsOf(table, u) == {r \in table : r.uuid = u}
HasRow(table, u) == RowsOf(table, u) # {}
RowOf(table, u) == CHOOSE r \in table : r.uuid = u

\* u has a row whose last_scan is within the TTL
FreshRow(u) ==
  \E row \in RowsOf(members, u) \cup RowsOf(players_no_guild, u) :
     ~IsStale(row, clock)

\* the player has a row in members or in players_no_guild
KnownRow(u) == HasRow(members, u) \/ HasRow(players_no_guild, u)

Tables == [guilds |-> guilds, members |-> members, players_no_guild |-> players_no_guild]

NoScan == [outcome |-> "none"]

(* ---------------- store statements ---------------- *)
\* INSERT INTO players_no_guild (uuid, last_scan) VALUES (?, ?)
\*   ON CONFLICT(uuid) DO UPDATE SET last_scan=excluded.last_scan
UpsertNoGuildRow(table, u, ts) ==
  (table \ RowsOf(table, u)) \cup {[uuid |-> u, last_scan |-> ts]}

\* DELETE FROM <table> WHERE uuid = ?
DeleteRow(table, u) == table \ RowsOf(table, u)

\* INSERT INTO guilds ... ON CONFLICT(guild_id) DO UPDATE SET ..., last_scan
UpsertGuildRow(table, g, ts) ==
  {r \in table : r.guild_id # g} \cup {[guild_id |-> g, last_scan |-> ts]}

\* (variant: INSERT without the ON CONFLICT clause, on a table without key)
InsertMemberRows(table, roster, g, ts) ==
  table \cup {[uuid |-> cleanUUID(m), guild_id |-> g, last_scan |-> ts] : m \in roster}

\* (variant: the roster replaces the guild's rows)
ReplaceMemberRows(table, roster, g, ts) ==
  {r \in table : r.guild_id # g /\ r.uuid \notin {cleanUUID(m) : m \in roster}}
    \cup {[uuid |-> cleanUUID(m), guild_id |-> g, last_scan |-> ts] : m \in roster}

\* for (const member of guild.members) stmt.run([...]):
\* INSERT INTO members ... ON CONFLICT(uuid) DO UPDATE SET guild_id, rank, last_scan
UpsertMemberRows(table, roster, g, ts) ==
  {r \in table : r.uuid \notin {cleanUUID(m) : m \in roster}}
    \cup {[uuid |-> cleanUUID(m), guild_id |-> g, last_scan |-> ts] : m \in roster}

\* a statement of pendingWrites applied to the table players_no_guild
ApplyStatement(table, w) ==
  IF w.op = "upsert_no_guild" THEN UpsertNoGuildRow(table, w.uuid, w.ts)
  ELSE IF w.op = "delete_no_guild" THEN DeleteRow(table, w.uuid)
  ELSE table

\* a statement of pendingWrites applied to the column level_last_updated:
\* UPDATE members SET highest_sb_level = ?, level_last_updated = ? WHERE uuid = ?
ApplyLevelStatement(col, w, table) ==
  IF w.op = "update_level" /\ HasRow(table, w.uuid)
  THEN [col EXCEPT ![w.uuid] = w.ts]
  ELSE col

(* ---------------- the PQueue (concurrency 1, interval, intervalCap) ------- *)
\* A task is the closure () => scanPlayerGuild(cleanUUID).
Task(u) == [uuid |-> u]

NewScan(task, tabs) ==
  [uuid |-> task.uuid, pc |-> "fetch",
   guild_id |-> "", roster |-> {}, ts |-> 0, pre |-> tabs]

doesIntervalAllowAnother(q) == q.intervalCount < IntervalCap

\* (variant: the queue without its concurrency limit)
doesConcurrentIgnored(q) == TRUE

doesConcurrentAllowAnother(q) == q.pendingCount < Concurrency

\* the interval timer is not running: either its end has passed (the count is
\* reset) or a timeout is set to resume at intervalEnd
isIntervalPaused(q, t) ==
  IF q.intervalId THEN [q |-> q, paused |-> FALSE]
  ELSE IF q.intervalEnd - t < 0
       THEN [q |-> [q EXCEPT !.intervalCount = 0], paused |-> FALSE]
       ELSE [q |-> IF q.timeoutId THEN q
                   ELSE [q EXCEPT !.timeoutId = TRUE, !.timeoutAt = q.intervalEnd],
             paused |-> TRUE]

initializeIntervalIfNeeded(q, t) ==
  IF q.intervalId THEN q
  ELSE [q EXCEPT !.intervalId = TRUE, !.intervalAt = t + IntervalMs,
                 !.intervalEnd = t + IntervalMs]

RememberStart(starts, t) ==
  LET all == Append(starts, t)
  IN IF Len(all) > IntervalCap + 1 THEN Tail(all) ELSE all

\* s = [pq, scans, fetchStarts]; starts the head task when the cap and the
\* concurrency allow it
tryToStartAnother(s, t, tabs) ==
  IF s.pq.queue = <<>>
  THEN [s |-> [s EXCEPT !.pq.intervalId = FALSE, !.pq.intervalAt = 0],
        started |-> FALSE]
  ELSE LET p == isIntervalPaused(s.pq, t)
           q == p.q
       IN IF doesIntervalAllowAnother(q) /\ doesConcurrentAllowAnother(q)
          THEN LET q1 == [q EXCEPT !.queue = Tail(@),
                                   !.pendingCount = @ + 1,
                                   !.intervalCount = @ + 1]
                   q2 == IF p.paused THEN q1 ELSE initializeIntervalIfNeeded(q1, t)
               IN [s |-> [pq |-> q2,
                          scans |-> Append(s.scans, NewScan(Head(q.queue), tabs)),
                          fetchStarts |-> RememberStart(s.fetchStarts, t)],
                   started |-> TRUE]
          ELSE [s |-> [s EXCEPT !.pq = q], started |-> FALSE]

RECURSIVE processQueue(_, _, _)
processQueue(s, t, tabs) ==
  LET r == tryToStartAnother(s, t, tabs)
  IN IF r.started THEN processQueue(r.s, t, tabs) ELSE r.s

onInterval(s, t, tabs) ==
  LET q == s.pq
      q1 == IF q.intervalCount = 0 /\ q.pendingCount = 0 /\ q.intervalId
            THEN [q EXCEPT !.intervalId = FALSE, !.intervalAt = 0] ELSE q
      q2 == [q1 EXCEPT !.intervalCount = 0]
  IN processQueue([s EXCEPT !.pq = q2], t, tabs)

onResumeInterval(s, t, tabs) ==
  LET s1 == onInterval(s, t, tabs)
      q2 == initializeIntervalIfNeeded(s1.pq, t)
  IN [s1 EXCEPT !.pq = [q2 EXCEPT !.timeoutId = FALSE, !.timeoutAt = 0]]

\* queue.add(fn)
queueAdd(s, task, t, tabs) ==
  tryToStartAnother([s EXCEPT !.pq.queue = Append(@, task)], t, tabs).s

\* run(): after the task's promise settles, _next()
queueNext(s, t, tabs) ==
  tryToStartAnother([s EXCEPT !.pq.pendingCount = @ - 1], t, tabs).s

QState == [pq |-> pq, scans |-> scans, fetchStarts |-> fetchStarts]

SetQState(s) ==
  /\ pq' = s.pq
  /\ scans' = s.scans
  /\ fetchStarts' = s.fetchStarts

(* ---------------- initial state ---------------- *)
IdleHandler ==
  [pc |-> "idle", uuid |-> <<>>, resp |-> "none", fresh |-> FALSE, known |-> FALSE]

StartWith(slots, sweeping) ==
  /\ clock = StartTime
  /\ ticks = 0
  /\ guilds = {}
  /\ members = {}
  /\ players_no_guild = {}
  /\ unguilded_players = {}
  /\ pendingWrites = <<>>
  /\ pq = [queue |-> <<>>, intervalCount |-> 0, intervalEnd |-> 0,
           intervalId |-> FALSE, intervalAt |-> 0,
           timeoutId |-> FALSE, timeoutAt |-> 0, pendingCount |-> 0]
  /\ scans = <<>>
  /\ handlers = [r \in 1..slots |-> IdleHandler]
  /\ fetchStarts = <<>>
  /\ submitted = 0
  /\ lastScan = NoScan
  /\ stats = [hypixelApiRequestTimestamps |-> 0, totalGuildsTracked |-> 0]
  /\ level_last_updated = [u \in Players |-> 0]
  /\ sweeps = <<>>
  /\ sweepAt = IF sweeping THEN StartTime + SweepIntervalMs ELSE 0
  /\ levelFetchedAt = [u \in Players |-> 0]

\* the server after start, with MaxRequests requests handled at a time
Init == StartWith(MaxRequests, FALSE)

\* a response is observable for one state
Settled ==
  [r \in DOMAIN handlers |->
     IF handlers[r].pc = "idle" THEN IdleHandler ELSE handlers[r]]

(* ---------------- time and timers ---------------- *)
StorePhase(sc) == sc.pc # "fetch"

StoreQuiet ==
  /\ pendingWrites = <<>>
  /\ \A i \in 1..Len(scans) : ~StorePhase(scans[i])
  /\ \A r \in DOMAIN handlers : handlers[r].pc = "idle"

\* Time passes while no store statement is outstanding, and never past the
\* deadline of a timer that is set.
Tick(d) ==
  /\ ticks < MaxTicks
  /\ StoreQuiet
  /\ pq.intervalId => clock + d <= pq.intervalAt
  /\ pq.timeoutId => clock + d <= pq.timeoutAt
  /\ clock' = clock + d
  /\ ticks' = ticks + 1
  /\ UNCHANGED <<guilds, members, players_no_guild, unguilded_players, sweeper,
                 level_last_updated, stats, pendingWrites, pq, scans,
                 fetchStarts, submitted>>
  /\ handlers' = Settled
  /\ lastScan' = NoScan

\* the next moment a timer of the queue is due
TimerDeadline ==
  IF pq.intervalId /\ pq.timeoutId
  THEN (IF pq.intervalAt < pq.timeoutAt THEN pq.intervalAt ELSE pq.timeoutAt)
  ELSE IF pq.intervalId THEN pq.intervalAt ELSE pq.timeoutAt

\* Time passes up to the moment the next timer of the queue is due, whatever
\* requests are in progress.  With no scan in progress this is the only way on
\* for a waiting task; with a scan in progress it is one of the clock advances
\* that MaxTicks counts.
WaitForTimer ==
  /\ pq.queue # <<>>
  /\ pendingWrites = <<>>
  /\ \A i \in 1..Len(scans) : ~StorePhase(scans[i])
  /\ pq.intervalId \/ pq.timeoutId
  /\ TimerDeadline > clock
  /\ clock' = TimerDeadline
  /\ IF scans = <<>> THEN ticks' = ticks
     ELSE ticks < MaxTicks /\ ticks' = ticks + 1
  /\ handlers' = Settled
  /\ lastScan' = NoScan
  /\ UNCHANGED <<guilds, members, players_no_guild, unguilded_players, sweeper,
                 level_last_updated, stats, pendingWrites, pq, scans,
                 fetchStarts, submitted>>

\* the tables as they are once every pending statement has been applied
RECURSIVE PendingApplied(_, _)
PendingApplied(tabs, pw) ==
  IF pw = <<>> THEN tabs
  ELSE PendingApplied(
         [tabs EXCEPT !.players_no_guild = ApplyStatement(@, Head(pw))], Tail(pw))

\* setInterval(() => this._onInterval(), interval)
IntervalFires ==
  /\ pq.intervalId
  /\ clock = pq.intervalAt
  /\ SetQState(onInterval([QState EXCEPT !.pq.intervalAt = @ + IntervalMs],
                          clock, PendingApplied(Tables, pendingWrites)))
  /\ UNCHANGED <<clock, ticks, guilds, members, players_no_guild,
                 unguilded_players, sweeper, level_last_updated, stats,
                 pendingWrites, submitted>>
  /\ handlers' = Settled
  /\ lastScan' = NoScan

\* setTimeout(() => this._onResumeInterval(), delay)
TimeoutFires ==
  /\ pq.timeoutId
  /\ clock = pq.timeoutAt
  /\ SetQState(onResumeInterval(QState, clock, PendingApplied(Tables, pendingWrites)))
  /\ UNCHANGED <<clock, ticks, guilds, members, players_no_guild,
                 unguilded_players, sweeper, level_last_updated, stats,
                 pendingWrites, submitted>>
  /\ handlers' = Settled
  /\ lastScan' = NoScan

\* sqlite executes the oldest statement that was issued without a callback
ApplyWrite ==
  /\ pendingWrites # <<>>
  /\ players_no_guild' = ApplyStatement(players_no_guild, Head(pendingWrites))
  /\ level_last_updated' =
       ApplyLevelStatement(level_last_updated, Head(pendingWrites), members)
  /\ pendingWrites' = Tail(pendingWrites)
  /\ UNCHANGED <<clock, ticks, guilds, members, unguilded_players, sweeper,
                 stats, pq, scans, fetchStarts, lastScan, submitted>>
  /\ handlers' = Settled

(* ---------------- POST /player ---------------- *)
Respond(r, u, resp, fresh, known) ==
  handlers' = [Settled EXCEPT ![r] =
                 [pc |-> "idle", uuid |-> u, resp |-> resp, fresh |-> fresh,
                  known |-> known]]

\* A request arrives only while the tasks it and the requests in progress may
\* add fit the bounds of the model.
InProgress == Cardinality({r \in DOMAIN handlers : handlers[r].pc # "idle"})

\* the tasks the model admits: fewer where the sweeper runs beside the scans
TaskBudget == IF sweepAt = 0 THEN MaxTasks ELSE MaxSweepTasks

MayArrive ==
  /\ submitted + InProgress < TaskBudget
  /\ Len(pq.queue) + InProgress < MaxQueue

\* (variant: no second task for a player who has one waiting or running)
EnqueueUnlessPending(u, tabs) ==
  IF \/ \E i \in 1..Len(pq.queue) : pq.queue[i].uuid = u
     \/ \E i \in 1..Len(scans) : scans[i].uuid = u
  THEN UNCHANGED <<pq, scans, fetchStarts, submitted>>
  ELSE /\ submitted' = submitted + 1
       /\ SetQState(queueAdd(QState, Task(u), clock, tabs))

Enqueue(u, tabs) ==
  /\ submitted' = submitted + 1
  /\ SetQState(queueAdd(QState, Task(u), clock, tabs))

\* if (!uuid) return res.status(400)
PostPlayerMissingUUID(r) ==
  /\ handlers[r].pc = "idle"
  /\ Respond(r, <<>>, "400", FALSE, FALSE)
  /\ UNCHANGED <<clock, ticks, guilds, members, players_no_guild,
                 unguilded_players, sweeper, level_last_updated, stats,
                 pendingWrites, pq, scans, fetchStarts, submitted>>
  /\ lastScan' = NoScan

\* db.get(`SELECT * FROM members WHERE uuid = ?`) and its callback (the
\* store answers reads; the err branch is the 500 of PostPlayerInsert)
PostPlayerSelectMember(r, raw) ==
  LET u == cleanUUID(raw)
  IN /\ handlers[r].pc = "idle"
     /\ raw # <<>>
     /\ MayArrive
     /\ pendingWrites = <<>>
     /\ IF HasRow(members, u)
        THEN IF IsStale(RowOf(members, u), clock)
             THEN /\ Enqueue(u, Tables)
                  /\ Respond(r, u, "queued_guild", FreshRow(u), KnownRow(u))
             ELSE /\ Respond(r, u, "recent_guild", FreshRow(u), KnownRow(u))
                  /\ UNCHANGED <<pq, scans, fetchStarts, submitted>>
        ELSE /\ handlers' = [Settled EXCEPT ![r] =
                               [pc |-> "select_no_guild", uuid |-> u,
                                resp |-> "none", fresh |-> FreshRow(u),
                                known |-> KnownRow(u)]]
             /\ UNCHANGED <<pq, scans, fetchStarts, submitted>>
     /\ lastScan' = NoScan
     /\ UNCHANGED <<clock, ticks, guilds, members, players_no_guild,
                    unguilded_players, sweeper, level_last_updated, stats,
                    pendingWrites>>

\* db.get(`SELECT * FROM players_no_guild WHERE uuid = ?`) and its callback
PostPlayerSelectNoGuild(r) ==
  LET u == handlers[r].uuid
  IN /\ handlers[r].pc = "select_no_guild"
     /\ pendingWrites = <<>>
     /\ IF HasRow(players_no_guild, u)
        THEN IF IsStale(RowOf(players_no_guild, u), clock)
             THEN Enqueue(u, Tables) /\ Respond(r, u, "queued_player", handlers[r].fresh,
                                                handlers[r].known)
             ELSE /\ Respond(r, u, "recent_player", handlers[r].fresh,
                                                handlers[r].known)
                  /\ UNCHANGED <<pq, scans, fetchStarts, submitted>>
        ELSE /\ handlers' = [Settled EXCEPT ![r].pc = "insert"]
             /\ UNCHANGED <<pq, scans, fetchStarts, submitted>>
     /\ lastScan' = NoScan
     /\ UNCHANGED <<clock, ticks, guilds, members, players_no_guild,
                    unguilded_players, sweeper, level_last_updated, stats,
                    pendingWrites>>

\* a write of the handler is not a write of the scans in progress: their
\* snapshots follow it
FollowInsert(sc, u) ==
  [sc EXCEPT !.pre.players_no_guild = @ \cup {[uuid |-> u, last_scan |-> 0]}]

\* (variant: queue.add after db.run, outside its callback)
PostPlayerInsertThenQueueAnyway(r, err) ==
  LET u == handlers[r].uuid
      failed == err \/ HasRow(players_no_guild, u)
      followed == [QState EXCEPT !.scans =
                     [i \in 1..Len(scans) |-> FollowInsert(scans[i], u)]]
  IN /\ handlers[r].pc = "insert"
     /\ pendingWrites = <<>>
     /\ players_no_guild' =
          IF failed THEN players_no_guild
          ELSE players_no_guild \cup {[uuid |-> u, last_scan |-> 0]}
     /\ submitted' = submitted + 1
     /\ SetQState(queueAdd(followed, Task(u), clock,
            [Tables EXCEPT !.players_no_guild = players_no_guild']))
     /\ Respond(r, u, IF failed THEN "500" ELSE "new_player",
                handlers[r].fresh, handlers[r].known)
     /\ lastScan' = NoScan
     /\ UNCHANGED <<clock, ticks, guilds, members, unguilded_players, sweeper,
                    level_last_updated, stats, pendingWrites>>

\* db.run(`INSERT INTO players_no_guild (uuid, last_scan) VALUES (?, ?)`,
\* [cleanUUID, 0]) and its callback; the primary key rejects a second row
PostPlayerInsert(r, err) ==
  LET u == handlers[r].uuid
      followed == [QState EXCEPT !.scans =
                     [i \in 1..Len(scans) |-> FollowInsert(scans[i], u)]]
  IN /\ handlers[r].pc = "insert"
     /\ pendingWrites = <<>>
     /\ IF err \/ HasRow(players_no_guild, u)
        THEN /\ Respond(r, u, "500", handlers[r].fresh,
                                                handlers[r].known)
             /\ UNCHANGED <<players_no_guild, pq, scans, fetchStarts,
                            submitted>>
             /\ lastScan' = NoScan
        ELSE /\ players_no_guild' = players_no_guild \cup {[uuid |-> u, last_scan |-> 0]}
             /\ submitted' = submitted + 1
             /\ SetQState(queueAdd(followed, Task(u), clock,
                    [Tables EXCEPT !.players_no_guild = players_no_guild']))
             /\ Respond(r, u, "new_player", handlers[r].fresh,
                                                handlers[r].known)
             /\ lastScan' = NoScan
     /\ UNCHANGED <<clock, ticks, guilds, members, unguilded_players, sweeper,
                    level_last_updated, stats, pendingWrites>>

(* ---------------- scanPlayerGuild ---------------- *)
\* guild.members[].uuid as the remote API sends them
RosterUUIDs == {<<"a">>, <<"-", "b">>}

\* what fetchGuildByUUID(u) can give: a throw (transport or non-2xx), null, or
\* the guild the player is in, whose member list holds the player
FetchResults(u) ==
  {[kind |-> "error", guild_id |-> "", roster |-> {}],
   [kind |-> "none", guild_id |-> "", roster |-> {}]}
  \cup {[kind |-> "guild", guild_id |-> g, roster |-> ms] :
          g \in Guilds,
          ms \in {x \in SUBSET RosterUUIDs : \E m \in x : cleanUUID(m) = u}}

RemoveAt(seq, i) ==
  [j \in 1..(Len(seq) - 1) |-> IF j < i THEN seq[j] ELSE seq[j + 1]]

Ended(sc, outcome) ==
  [outcome |-> outcome, uuid |-> sc.uuid,
   guild_id |-> sc.guild_id,
   roster |-> {cleanUUID(m) : m \in sc.roster}, pre |-> sc.pre]

\* (variant: a scan that failed takes the waiting tasks down with it)
FinishScanDropsOnFailure(i, sc, outcome, tabs) ==
  /\ IF outcome \in {"fetch_failed", "store_failed"}
     THEN SetQState(queueNext([QState EXCEPT !.scans = RemoveAt(scans, i),
                                             !.pq.queue = <<>>], clock, tabs))
     ELSE SetQState(queueNext([QState EXCEPT !.scans = RemoveAt(scans, i)],
                              clock, tabs))
  /\ lastScan' = Ended(sc, outcome)

\* the task's promise settles (scanPlayerGuild never rejects: its catch logs
\* and returns); the queue goes on with _next()
FinishScan(i, sc, outcome, tabs) ==
  /\ SetQState(queueNext([QState EXCEPT !.scans = RemoveAt(scans, i)], clock, tabs))
  /\ lastScan' = Ended(sc, outcome)

\* stats.hypixelApiRequestTimestamps.push(Date.now())
ApiRequestCounted(st) == [st EXCEPT !.hypixelApiRequestTimestamps = @ + 1]

\* fetchGuildByUUID after its axios.get has settled: a throw leaves the
\* function before the push, a response is counted
AfterGet(st, res) == IF res.kind = "error" THEN st ELSE ApiRequestCounted(st)

\* const guild = await fetchGuildByUUID(uuid), and what follows up to the
\* next await
FetchReturns(i, res) ==
  LET sc == scans[i]
      sc1 == [sc EXCEPT !.guild_id = res.guild_id, !.roster = res.roster]
  IN /\ sc.pc = "fetch"
        /\ res \in FetchResults(sc.uuid)
     /\ CASE res.kind = "error" ->
               /\ FinishScan(i, sc, "fetch_failed", PendingApplied(Tables, pendingWrites))
               /\ UNCHANGED pendingWrites
          [] res.kind = "none" ->
               /\ pendingWrites' = Append(pendingWrites,
                     [op |-> "upsert_no_guild", uuid |-> sc.uuid, ts |-> now(clock)])
               /\ FinishScan(i, sc, "no_guild", PendingApplied(Tables, pendingWrites'))
          [] res.kind = "guild" ->
               /\ pendingWrites' = Append(pendingWrites,
                     [op |-> "delete_no_guild", uuid |-> sc.uuid, ts |-> 0])
               /\ scans' = [scans EXCEPT ![i] = [sc1 EXCEPT !.pc = "select_old"]]
               /\ lastScan' = NoScan
               /\ UNCHANGED <<pq, fetchStarts>>
     /\ stats' = AfterGet(stats, res)
     /\ UNCHANGED <<clock, ticks, guilds, members, players_no_guild,
                    unguilded_players, sweeper, level_last_updated, submitted>>
     /\ handlers' = Settled

\* removePlayerFromOldGuild: db.get(`SELECT guild_id FROM members WHERE uuid = ?`)
\* and its callback; resolve(false) goes on into upsertGuild, which takes
\* lastScan = now() and issues the INSERT INTO guilds
SelectOldGuild(i, err) ==
  LET sc == scans[i]
  IN /\ sc.pc = "select_old"
     /\ pendingWrites = <<>>
     /\ IF err THEN FinishScan(i, sc, "store_failed", Tables)
        ELSE /\ scans' = [scans EXCEPT ![i] =
                  IF HasRow(members, sc.uuid)
                     /\ RowOf(members, sc.uuid).guild_id # sc.guild_id
                  THEN [sc EXCEPT !.pc = "delete_old"]
                  ELSE [sc EXCEPT !.pc = "upsert_guild", !.ts = now(clock)]]
             /\ UNCHANGED <<pq, fetchStarts>> /\ lastScan' = NoScan
     /\ UNCHANGED <<clock, ticks, guilds, members, players_no_guild,
                    unguilded_players, sweeper, level_last_updated, stats,
                    pendingWrites, submitted>>
     /\ handlers' = Settled

\* removePlayerFromOldGuild: db.run(`DELETE FROM members WHERE uuid = ?`) and
\* its callback; resolve(true) goes on into upsertGuild
DeleteOldGuild(i, err) ==
  LET sc == scans[i]
  IN /\ sc.pc = "delete_old"
     /\ pendingWrites = <<>>
     /\ IF err THEN /\ FinishScan(i, sc, "store_failed", Tables)
                     /\ UNCHANGED <<members, level_last_updated>>
        ELSE /\ members' = DeleteRow(members, sc.uuid)
             /\ level_last_updated' = [level_last_updated EXCEPT ![sc.uuid] = 0]
             /\ scans' = [scans EXCEPT ![i] =
                            [sc EXCEPT !.pc = "upsert_guild", !.ts = now(clock)]]
             /\ UNCHANGED <<pq, fetchStarts>> /\ lastScan' = NoScan
     /\ UNCHANGED <<clock, ticks, guilds, players_no_guild, unguilded_players,
                    sweeper, stats, pendingWrites, submitted>>
     /\ handlers' = Settled

\* stats.totalGuildsTracked = stats.totalGuildsTracked + 1, in the callback
\* of the INSERT INTO guilds ... ON CONFLICT DO UPDATE, whichever of the two
\* the statement did
GuildTracked(st) == [st EXCEPT !.totalGuildsTracked = @ + 1]

\* upsertGuild: the INSERT INTO guilds and its callback, which takes
\* memberLastScan = now() and issues one stmt.run per member and stmt.finalize
UpsertGuild(i, err) ==
  LET sc == scans[i]
  IN /\ sc.pc = "upsert_guild"
     /\ pendingWrites = <<>>
     /\ IF err THEN /\ FinishScan(i, sc, "store_failed", Tables)
                     /\ UNCHANGED <<guilds, stats>>
        ELSE /\ guilds' = UpsertGuildRow(guilds, sc.guild_id, sc.ts)
             /\ stats' = GuildTracked(stats)
             /\ scans' = [scans EXCEPT ![i] =
                            [sc EXCEPT !.pc = "upsert_members", !.ts = now(clock)]]
             /\ UNCHANGED <<pq, fetchStarts>> /\ lastScan' = NoScan
     /\ UNCHANGED <<clock, ticks, members, players_no_guild, unguilded_players,
                    sweeper, level_last_updated, pendingWrites, submitted>>
     /\ handlers' = Settled

\* upsertGuild: the member statements run, then the callback of stmt.finalize
\* resolves or rejects
UpsertMembers(i, err) ==
  LET sc == scans[i]
  IN /\ sc.pc = "upsert_members"
     /\ pendingWrites = <<>>
     /\ members' = UpsertMemberRows(members, sc.roster, sc.guild_id, sc.ts)
     /\ FinishScan(i, sc, IF err THEN "store_failed" ELSE "guild",
                   [Tables EXCEPT !.members = members'])
     /\ UNCHANGED <<clock, ticks, guilds, players_no_guild, unguilded_players,
                    sweeper, level_last_updated, stats, pendingWrites,
                    submitted>>
     /\ handlers' = Settled

(* ---------------- the sweeper (part_000) ---------------- *)
\* A sweep is one call of processGuildLevels: the rows it still has to go
\* through, the first of them in work, where it stands, and the nowTime of
\* the updateMemberLevel call in progress.
NewSweep == [pc |-> "select_rows", rows |-> <<>>, nowTime |-> 0]

\* SELECT DISTINCT m.uuid, m.guild_id FROM members m LEFT JOIN guilds g ...
\* ORDER BY m.level_last_updated ASC NULLS FIRST LIMIT 60: one row for each
\* member, rows of equal level_last_updated in any order
SweepOrders(table, col) ==
  LET us == {row.uuid : row \in table}
      n == Cardinality(us)
      k == IF n < SweepLimit THEN n ELSE SweepLimit
  IN {q \in [1..k -> us] :
        /\ \A i, j \in 1..k : i < j => q[i] # q[j] /\ col[q[i]] <= col[q[j]]
        /\ \A u \in us : (\A i \in 1..k : q[i] # u) =>
                           \A i \in 1..k : col[q[i]] <= col[u]}

\* what fetchHighestSBLevel can meet: a throw of axios.get (caught, null), a
\* response without success or without profiles (null), a level
LevelResults == {"error", "absent", "level"}

\* Time passes up to the next tick of the sweeper's setInterval: no store
\* statement is outstanding; a remote call may take that long.
WaitForSweepTimer ==
  /\ sweepAt > clock
  /\ sweepAt <= StartTime + MaxSweeps * SweepIntervalMs
  /\ StoreQuiet
  /\ \A k \in 1..Len(sweeps) : sweeps[k].pc = "fetch"
  /\ pq.intervalId => sweepAt <= pq.intervalAt
  /\ pq.timeoutId => sweepAt <= pq.timeoutAt
  /\ clock' = sweepAt
  /\ handlers' = Settled
  /\ lastScan' = NoScan
  /\ UNCHANGED <<ticks, guilds, members, players_no_guild, unguilded_players,
                 sweeper, level_last_updated, stats, pendingWrites, pq, scans,
                 fetchStarts, submitted>>

\* setInterval(() => { processGuildLevels(); }, 60 * 1000): the call issues
\* its db.all
SweepTimerFires ==
  /\ clock = sweepAt
  /\ sweeps' = Append(sweeps, NewSweep)
  /\ sweepAt' = sweepAt + SweepIntervalMs
  /\ handlers' = Settled
  /\ lastScan' = NoScan
  /\ UNCHANGED <<clock, ticks, guilds, members, players_no_guild,
                 unguilded_players, level_last_updated, levelFetchedAt, stats,
                 pendingWrites, pq, scans, fetchStarts, submitted>>

\* processGuildLevels: the callback of db.all; with rows, the loop enters
\* updateMemberLevel(rows[0].uuid), which takes nowTime and issues its db.get
ProcessGuildLevels(k, err) ==
  LET sw == sweeps[k]
  IN /\ sw.pc = "select_rows"
     /\ pendingWrites = <<>>
     /\ \E q \in SweepOrders(members, level_last_updated) :
          sweeps' = IF err \/ q = <<>> THEN RemoveAt(sweeps, k)
                    ELSE [sweeps EXCEPT ![k] =
                            [pc |-> "select_level", rows |-> q, nowTime |-> clock]]
     /\ handlers' = Settled
     /\ lastScan' = NoScan
     /\ UNCHANGED <<clock, ticks, guilds, members, players_no_guild,
                    unguilded_players, level_last_updated, sweepAt,
                    levelFetchedAt, stats, pendingWrites, pq, scans,
                    fetchStarts, submitted>>

\* the loop of processGuildLevels after updateMemberLevel has returned:
\* recalcGuildAverage(row.guild_id) is a call of a name that is defined
\* nowhere, it throws a ReferenceError; the async callback of db.all rejects
\* and the sweep is over with its first row, the pause of 1000 ms and the
\* further rows are never reached
AfterMember(k) == sweeps' = RemoveAt(sweeps, k)

\* if (row && row.level_last_updated && (nowTime - row.level_last_updated) < 604800000)
IsLevelFresh(col, table, u, nowTime) ==
  HasRow(table, u) /\ col[u] # 0 /\ nowTime - col[u] < LevelTtlMs

\* updateMemberLevel: the callback of db.get; a fresh row returns, anything
\* else calls fetchHighestSBLevel; an err rejects and leaves the loop
UpdateMemberLevel(k, err) ==
  LET sw == sweeps[k]
      u == Head(sw.rows)
  IN /\ sw.pc = "select_level"
     /\ pendingWrites = <<>>
     /\ IF err THEN sweeps' = RemoveAt(sweeps, k) /\ UNCHANGED levelFetchedAt
        ELSE IF IsLevelFresh(level_last_updated, members, u, sw.nowTime)
        THEN AfterMember(k) /\ UNCHANGED levelFetchedAt
        ELSE /\ sweeps' = [sweeps EXCEPT ![k].pc = "fetch"]
             /\ levelFetchedAt' = [levelFetchedAt EXCEPT ![u] = clock]
     /\ handlers' = Settled
     /\ lastScan' = NoScan
     /\ UNCHANGED <<clock, ticks, guilds, members, players_no_guild,
                    unguilded_players, level_last_updated, sweepAt, stats,
                    pendingWrites, pq, scans, fetchStarts, submitted>>

\* fetchHighestSBLevel settles: a response is counted, a level is written by
\* a db.run without callback with the nowTime taken before the db.get
FetchHighestSBLevel(k, res) ==
  LET sw == sweeps[k]
      u == Head(sw.rows)
  IN /\ sw.pc = "fetch"
     /\ stats' = IF res = "error" THEN stats ELSE ApiRequestCounted(stats)
     /\ pendingWrites' =
          IF res = "level"
          THEN Append(pendingWrites,
                      [op |-> "update_level", uuid |-> u, ts |-> sw.nowTime])
          ELSE pendingWrites
     /\ AfterMember(k)
     /\ handlers' = Settled
     /\ lastScan' = NoScan
     /\ UNCHANGED <<clock, ticks, guilds, members, players_no_guild,
                    unguilded_players, level_last_updated, sweepAt,
                    levelFetchedAt, pq, scans, fetchStarts, submitted>>

(* ---------------- GET /unguilded (index.js) ---------------- *)
\* db.all('SELECT * FROM unguilded_players')
GetUnguilded == {r.uuid : r \in unguilded_players}

(* ---------------- specification ---------------- *)
\* every step but the passing of time
Steps ==
  \/ IntervalFires
  \/ TimeoutFires
  \/ ApplyWrite
  \/ \E r \in DOMAIN handlers : PostPlayerMissingUUID(r)
  \/ \E r \in DOMAIN handlers, raw \in RawUUIDs : PostPlayerSelectMember(r, raw)
  \/ \E r \in DOMAIN handlers : PostPlayerSelectNoGuild(r)
  \/ \E r \in DOMAIN handlers, err \in BOOLEAN : PostPlayerInsert(r, err)
  \/ \E i \in 1..Len(scans) :
       \E res \in FetchResults(scans[i].uuid) : FetchReturns(i, res)
  \/ \E i \in 1..Len(scans), err \in BOOLEAN : SelectOldGuild(i, err)
  \/ \E i \in 1..Len(scans), err \in BOOLEAN : DeleteOldGuild(i, err)
  \/ \E i \in 1..Len(scans), err \in BOOLEAN : UpsertGuild(i, err)
  \/ \E i \in 1..Len(scans), err \in BOOLEAN : UpsertMembers(i, err)

Next ==
  \/ \E d \in TickSteps : Tick(d)
  \/ Steps

Spec == Init /\ [][Next]_vars

\* The server of part_000 with its sweeper; time passes from one tick of the
\* sweeper to the next.
SweepSteps ==
  \/ SweepTimerFires
  \/ \E k \in 1..Len(sweeps), err \in BOOLEAN : ProcessGuildLevels(k, err)
  \/ \E k \in 1..Len(sweeps), err \in BOOLEAN : UpdateMemberLevel(k, err)
  \/ \E k \in 1..Len(sweeps), res \in LevelResults : FetchHighestSBLevel(k, res)

SweepNext ==
  \/ WaitForSweepTimer
  \/ SweepSteps
  \/ Steps

SweepInit == StartWith(MaxRequests, TRUE)

SweepSpec == SweepInit /\ [][SweepNext]_vars

\* the same server with MaxConcurrentRequests requests handled at a time
ConcurrentInit == StartWith(MaxConcurrentRequests, FALSE)

ConcurrentSpec == ConcurrentInit /\ [][Next]_vars

\* The server as long as it keeps running: time passes to the next timer that
\* is due, timers fire, sqlite executes and answers every statement, every
\* remote call settles, a request that has begun is carried through.
LiveNext ==
  \/ WaitForTimer
  \/ Steps

Fairness ==
  /\ SF_vars(WaitForTimer)
  /\ WF_vars(IntervalFires)
  /\ WF_vars(TimeoutFires)
  /\ WF_vars(ApplyWrite)
  /\ \A r \in 1..MaxRequests :
       /\ WF_vars(PostPlayerSelectNoGuild(r))
       /\ WF_vars(\E err \in BOOLEAN : PostPlayerInsert(r, err))
  /\ WF_vars(\E i \in 1..Len(scans) :
               \E res \in FetchResults(scans[i].uuid) : FetchReturns(i, res))
  /\ WF_vars(\E i \in 1..Len(scans), err \in BOOLEAN : SelectOldGuild(i, err))
  /\ WF_vars(\E i \in 1..Len(scans), err \in BOOLEAN : DeleteOldGuild(i, err))
  /\ WF_vars(\E i \in 1..Len(scans), err \in BOOLEAN : UpsertGuild(i, err))
  /\ WF_vars(\E i \in 1..Len(scans), err \in BOOLEAN : UpsertMembers(i, err))

LiveSpec == Init /\ [][LiveNext]_vars /\ Fairness

(* ======================= the claims ======================= *)
\* the scan that has just ended, all its statements executed
ScanSettled == lastScan.outcome # "none" /\ pendingWrites = <<>>

ScanCompleted == ScanSettled /\ lastScan.outcome \in {"guild", "no_guild"}

ScanFailed == ScanSettled /\ lastScan.outcome \in {"fetch_failed", "store_failed"}

RowCount(u) ==
  Cardinality(RowsOf(members, u)) + Cardinality(RowsOf(players_no_guild, u))

\* the scan was queued for a player the handler had just added: the
\* placeholder row (last_scan 0) was there when it started
QueuedForNewPlayer ==
  [uuid |-> lastScan.uuid, last_scan |-> 0] \in lastScan.pre.players_no_guild

\* C1: after a completed scan of P, with its writes applied, P has a row in at
\* most one of members and players_no_guild.
C1_ExclusiveAfterScan ==
  ScanCompleted =>
    ~(HasRow(members, lastScan.uuid) /\ HasRow(players_no_guild, lastScan.uuid))

\* C2: in every window of length IntervalMs at most IntervalCap scans start:
\* of any IntervalCap + 1 consecutive starts, the last is at least IntervalMs
\* after the first.
C2_RateCompliance ==
  Len(fetchStarts) = IntervalCap + 1 =>
    fetchStarts[Len(fetchStarts)] - fetchStarts[1] >= IntervalMs

\* C3: a player with no row is posted; once the scan queued for it has ended
\* (guild, no guild or failed fetch) exactly one row exists for it.
C3_OneRowAfterFirstScan ==
  (ScanSettled /\ QueuedForNewPlayer
     /\ lastScan.outcome \in {"guild", "no_guild", "fetch_failed"})
    => RowCount(lastScan.uuid) = 1

\* the request r is answered in this step
Answered(r) == handlers[r].resp = "none" /\ handlers'[r].resp # "none"

\* C4: a POST /player for a player who has a row scanned within the TTL when
\* the request arrives is answered "recently scanned", adds no task and
\* changes no row.
C4_FreshPostIsNoOp ==
  [][\A r \in DOMAIN handlers :
       (Answered(r) /\ handlers'[r].fresh) =>
          /\ handlers'[r].resp \in {"recent_guild", "recent_player"}
          /\ UNCHANGED <<guilds, members, players_no_guild, pq, scans,
                         submitted>>]_vars

\* the scan that has just ended found the player under another guild than the
\* one it fetched
MovedGuild ==
  /\ lastScan.outcome = "guild"
  /\ \E row \in lastScan.pre.members :
        row.uuid = lastScan.uuid /\ row.guild_id # lastScan.guild_id

\* C5: a member of guild A whose scan fetches guild B has, after the scan,
\* exactly one members row, under B, and no players_no_guild row; no player
\* ever has two members rows.
C5_GuildChange ==
  /\ \A u \in Players : Cardinality(RowsOf(members, u)) <= 1
  /\ (ScanSettled /\ MovedGuild) =>
        /\ Cardinality(RowsOf(members, lastScan.uuid)) = 1
        /\ RowOf(members, lastScan.uuid).guild_id = lastScan.guild_id
        /\ ~HasRow(players_no_guild, lastScan.uuid)

\* C6: a successful scan that fetched guild G adds or changes members rows
\* only for the players of the fetched roster, and every row of G whose player
\* is not in the roster is still there, unchanged.
C6_RosterMonotone ==
  lastScan.outcome = "guild" =>
    /\ \A row \in members \ lastScan.pre.members : row.uuid \in lastScan.roster
    /\ \A row \in lastScan.pre.members :
          (row.guild_id = lastScan.guild_id /\ row.uuid \notin lastScan.roster)
             => row \in members

C6_Witness ==
  /\ lastScan.outcome = "guild"
  /\ \E row \in lastScan.pre.members :
        /\ row.guild_id = lastScan.guild_id
        /\ row.uuid \notin lastScan.roster
        /\ row \in members

\* C7: a scan that failed leaves guilds, members and players_no_guild as they
\* were when it started.
C7_FailedScanChangesNothing ==
  ScanFailed => Tables = lastScan.pre

\* number of tasks the queue has started so far
StartedCount == submitted - Len(pq.queue)

\* the tasks started in a step are the oldest of the waiting ones, in the
\* order they were added, and what stays in the queue keeps its order
FifoStep ==
  \E added \in {<<>>} \cup {<<Task(u)>> : u \in Players} :
    LET all == pq.queue \o added
        n == Len(all) - Len(pq'.queue)
    IN /\ n >= 0
       /\ pq'.queue = SubSeq(all, n + 1, Len(all))
       /\ Len(scans') >= n
       /\ \A k \in 1..n :
            /\ scans'[Len(scans') - n + k].uuid = all[k].uuid
            /\ scans'[Len(scans') - n + k].pc = "fetch"

C9_OneScanInProgress ==
  Len(scans) <= Concurrency /\ pq.pendingCount = Len(scans)

\* the interval would let the next task start; only the scan in progress
\* holds it back
C9_Witness ==
  /\ Len(scans) = 1
  /\ pq.queue # <<>>
  /\ doesIntervalAllowAnother(pq)

\* C9 (as stated): while a scan is at its fetch, no statement of the scan
\* before it is still to be executed.
C9_PreviousScanFinished ==
  \A i \in 1..Len(scans) : scans[i].pc = "fetch" => pendingWrites = <<>>

\* the rosters, as the remote API sends them, that the scan that has just
\* ended can have fetched
RawRostersOfLastScan ==
  {raw \in SUBSET RosterUUIDs : {cleanUUID(m) : m \in raw} = lastScan.roster}

\* C11: upsertGuild run a second time with the same guild, right after the
\* scan that ran it, leaves the keys of guilds and members as they are: one
\* guilds row for the guild's id and one members row for each normalized
\* roster identifier, after the first run and after the second.
C11_UpsertGuildIdempotent ==
  lastScan.outcome = "guild" =>
    \A raw \in RawRostersOfLastScan, ts \in {now(clock), now(clock) + 1} :
      LET g == lastScan.guild_id
          guilds2 == UpsertGuildRow(guilds, g, ts)
          members2 == UpsertMemberRows(members, raw, g, ts)
      IN /\ {row.guild_id : row \in guilds2} = {row.guild_id : row \in guilds}
         /\ {row.uuid : row \in members2} = {row.uuid : row \in members}
         /\ Cardinality({row \in guilds : row.guild_id = g}) = 1
         /\ Cardinality({row \in guilds2 : row.guild_id = g}) = 1
         /\ \A u \in lastScan.roster :
               /\ Cardinality(RowsOf(members, u)) = 1
               /\ Cardinality(RowsOf(members2, u)) = 1

\* the scan wrote a roster of two, one of them over a row that was there
C11_Witness ==
  /\ lastScan.outcome = "guild"
  /\ Cardinality(lastScan.roster) = 2
  /\ \E row \in lastScan.pre.members :
        row.uuid \in lastScan.roster /\ row \notin members
  /\ \E row \in lastScan.pre.guilds : row.guild_id = lastScan.guild_id

\* the step in which the fetchGuildByUUID call of scan i settles
FetchSettles(i) ==
  /\ scans[i].pc = "fetch"
  /\ \/ lastScan' # NoScan /\ ~UNCHANGED <<scans, pq>>
     \/ i <= Len(scans') /\ scans'[i].pc = "select_old"

\* C12: every call of fetchGuildByUUID adds one timestamp to
\* stats.hypixelApiRequestTimestamps, whether it gives a guild, no guild, or
\* throws.
C12_EveryFetchCounted ==
  [][\A i \in 1..Len(scans) :
       FetchSettles(i) =>
         stats'.hypixelApiRequestTimestamps = stats.hypixelApiRequestTimestamps + 1]_vars

\* C13: in every state, no identifier has a row in members and a row in
\* players_no_guild, whoever wrote the rows: the player's own scan, the scan
\* of a guild mate, or a request handled meanwhile.
C13_NeverInBothTables ==
  \A u \in Players : ~(HasRow(members, u) /\ HasRow(players_no_guild, u))

\* this step gives the queue one more task, for u, at the end of the FIFO or
\* started at once
OneMoreTask(u) ==
  /\ submitted' = submitted + 1
  /\ Len(pq'.queue) + Len(scans') = Len(pq.queue) + Len(scans) + 1
  /\ IF Len(pq'.queue) > Len(pq.queue)
     THEN pq'.queue[Len(pq'.queue)].uuid = u
     ELSE scans'[Len(scans')].uuid = u

\* C14: the request that found no row for U in members and in
\* players_no_guild issues the INSERT of (U, 0); when the INSERT succeeds the
\* row is there and one task for U is added in the same callback; when it
\* fails the answer is 500, no row and no task are added.
C14_PlaceholderThenTask ==
  [][\A r \in DOMAIN handlers :
       handlers[r].pc = "insert" /\ handlers'[r].pc # "insert" =>
         LET u == handlers[r].uuid
         IN \/ /\ handlers'[r].resp = "new_player"
               /\ ~HasRow(players_no_guild, u)
               /\ players_no_guild' =
                    players_no_guild \cup {[uuid |-> u, last_scan |-> 0]}
               /\ OneMoreTask(u)
               /\ UNCHANGED <<guilds, members>>
            \/ /\ handlers'[r].resp = "500"
               /\ UNCHANGED <<guilds, members, players_no_guild, pq, scans,
                              submitted>>]_vars

\* a request for a player without any row has just been answered with the
\* placeholder written and its task in the queue or running
C14_Witness ==
  \E r \in DOMAIN handlers :
    /\ handlers[r].resp = "new_player"
    /\ ~handlers[r].known
    /\ [uuid |-> handlers[r].uuid, last_scan |-> 0] \in players_no_guild
    /\ \/ \E i \in 1..Len(scans) : scans[i].uuid = handlers[r].uuid
       \/ \E i \in 1..Len(pq.queue) : pq.queue[i].uuid = handlers[r].uuid

\* the tasks for u that wait in the FIFO or run
TasksFor(q, sc, u) ==
  Cardinality({i \in 1..Len(q.queue) : q.queue[i].uuid = u})
  + Cardinality({i \in 1..Len(sc) : sc[i].uuid = u})

C16_ReconciliationUndisturbed ==
  [][\A i \in 1..Len(scans) :
       LET u == scans[i].uuid
       IN ( /\ StorePhase(scans[i]) /\ pendingWrites = <<>>
            /\ i <= Len(scans') /\ scans'[i].pc = scans[i].pc )
          => /\ RowsOf(members', u) = RowsOf(members, u)
             /\ RowsOf(players_no_guild', u) = RowsOf(players_no_guild, u)]_vars

\* C20: a request for P that arrives when a scan of P has just completed
\* (guild or no guild, its statements applied; the clock has not moved since)
\* is not answered with a queued scan and adds no task, whatever rows P had
\* before the scan.
C20_NoRefetchAfterScan ==
  [][\A r \in DOMAIN handlers :
       ( /\ ScanCompleted
         /\ handlers[r].pc = "idle" /\ handlers' # Settled
         /\ handlers'[r].uuid = lastScan.uuid )
       => /\ handlers'[r].resp \in {"recent_guild", "none"}
          /\ handlers'[r].resp = "none" => handlers'[r].fresh
          /\ UNCHANGED <<pq, scans, submitted>>]_vars

\* C19: a request for a never-seen U that found no row and whose INSERT
\* meets the placeholder (U, 0) that a request handled at the same time has
\* written meanwhile gets no error answer, leaves the one placeholder as it
\* is and adds its task.
C19_ConcurrentFirstSubmissions ==
  [][\A r \in DOMAIN handlers :
       LET u == handlers[r].uuid
       IN ( /\ handlers[r].pc = "insert" /\ handlers'[r].pc = "idle"
            /\ ~handlers[r].known
            /\ [uuid |-> u, last_scan |-> 0] \in players_no_guild )
          => /\ handlers'[r].resp # "500"
             /\ OneMoreTask(u)
             /\ players_no_guild' = players_no_guild]_vars

\* C17: a fetch of the sweeper is a task of the scan queue: none is out while
\* a guild scan executes, and the queue's accounting covers it (a fetch of
\* the sweeper in flight is one of the queue's pending tasks).
C17_SweeperFetchIsQueueTask ==
  \A k \in 1..Len(sweeps) :
    sweeps[k].pc = "fetch" => scans = <<>> /\ pq.pendingCount >= 1

\* C18: a sweep calls fetchHighestSBLevel for a member only if no sweep has
\* called it for that member in the last 7 days, and leaves alone the row
\* whose level_last_updated is less than 7 days old.
C18_OneLevelFetchPerWeek ==
  [][\A k \in 1..Len(sweeps) :
       ( /\ sweeps[k].pc = "select_level"
         /\ k <= Len(sweeps') /\ sweeps'[k].pc = "fetch" )
       => LET u == Head(sweeps[k].rows)
          IN /\ levelFetchedAt[u] = 0 \/ clock - levelFetchedAt[u] >= LevelTtlMs
             /\ ~IsLevelFresh(level_last_updated, members, u, clock)]_vars

\* C21: with no scan in progress and every statement applied,
\* stats.totalGuildsTracked is the number of rows of guilds; a scan that
\* fetches a guild that is stored already leaves the counter as it is.
C21_GuildCounterAgrees ==
  scans = <<>> /\ pendingWrites = <<>> =>
    stats.totalGuildsTracked = Cardinality(guilds)

\* C10: after the scan of a newly posted player ends with "no guild", the
\* answer of GET /unguilded holds the player.
C10_UnguildedListsPlayer ==
  (ScanSettled /\ lastScan.outcome = "no_guild" /\ QueuedForNewPlayer)
    => lastScan.uuid \in GetUnguilded

====
